---- MODULE Spec2Model ----
(***************************************************************************)
(* Model of src/rule.rs: the human friendly rule description `Rule`, its   *)
(* validating constructor `Rule::create`, its lowering `Rule::lower` to    *)
(* the reasoner's `LowRule`, and `Rule::cononical_unbound`.                *)
(*                                                                         *)
(* Unbound and Bound values are small integers ordered by <, which stands  *)
(* for the `Ord` instances the code requires.  An Option is a sequence of  *)
(* length 0 (None) or 1 (Some).  A BTreeMap is a function; iterating it    *)
(* visits its keys in ascending order.  next_local is a u32; a rule of the *)
(* sizes explored here has a dozen entity slots at most, far below 2^32,   *)
(* so the counter never wraps.                                             *)
(***************************************************************************)
EXTENDS Integers, Sequences, FiniteSets, TLC

\* ---------------------------------------------------------------- bounds
\* short rules over the whole universe of values
NumUnbound == 2
NumBound == 2
MaxIfAll == 1
MaxThen == 1
\* longer rules over a narrower universe of values
LongNumUnbound == 1
LongNumBound == 1
LongMaxIfAll == 2
LongMaxThen == 2

\* ----------------------------------------------------------------- types
Unbound == 1..NumUnbound
Bound == 1..NumBound

any(u) == [tag |-> "Any", val |-> u]
exa(b) == [tag |-> "Exactly", val |-> b]

Entity == {any(u) : u \in Unbound} \cup {exa(b) : b \in Bound}
LongEntity == {any(u) : u \in 1..LongNumUnbound} \cup {exa(b) : b \in 1..LongNumBound}

\* [Entity<Unbound, Bound>; 3]
Pattern(E) == [1..3 -> E]

\* Vec<[Entity<Unbound, Bound>; 3]>
PatternSeqs(E, n) == UNION {[1..k -> Pattern(E)] : k \in 0..n}

\* the (if_all, then) pairs given to Rule::create
RuleArgs ==
    (PatternSeqs(Entity, MaxIfAll) \X PatternSeqs(Entity, MaxThen))
        \cup (PatternSeqs(LongEntity, LongMaxIfAll) \X PatternSeqs(LongEntity, LongMaxThen))

None == <<>>
Some(x) == <<x>>

as_unbound(e) == IF e.tag = "Any" THEN Some(e.val) ELSE None
as_bound(e) == IF e.tag = "Any" THEN None ELSE Some(e.val)

\* ------------------------------------------------------------- iterators
\* .iter().flatten() over a Vec<[Entity; 3]>
RECURSIVE Flatten(_)
Flatten(ps) == IF ps = <<>> THEN <<>> ELSE Head(ps) \o Flatten(Tail(ps))

\* .filter_map(Entity::as_unbound)
RECURSIVE FilterUnbound(_)
FilterUnbound(es) ==
    IF es = <<>> THEN <<>> ELSE as_unbound(Head(es)) \o FilterUnbound(Tail(es))

\* .filter_map(Entity::as_bound)
RECURSIVE FilterBound(_)
FilterBound(es) ==
    IF es = <<>> THEN <<>> ELSE as_bound(Head(es)) \o FilterBound(Tail(es))

\* variant: the conclusions are chained before the premises
iter_entities_then_first(rule) == Flatten(rule.then \o rule.if_all)

\* self.if_all.iter().chain(self.then.iter()).flatten()
iter_entities(rule) == Flatten(rule.if_all \o rule.then)

Range(s) == {s[i] : i \in DOMAIN s}

\* --------------------------------------------------------- Rule::create
\* variant: only the first variable of `then` is looked up
FirstUnboundImplied_head(unbound_then, unbound_if) ==
    IF unbound_then = <<>> THEN None
    ELSE IF Head(unbound_then) \notin Range(unbound_if) THEN Some(Head(unbound_then))
    ELSE None

\* for th in unbound_then { if !unbound_if.any(|ifa| ifa == th) { return Err } }
RECURSIVE FirstUnboundImplied(_, _)
FirstUnboundImplied(unbound_then, unbound_if) ==
    IF unbound_then = <<>> THEN None
    ELSE IF Head(unbound_then) \notin Range(unbound_if) THEN Some(Head(unbound_then))
    ELSE FirstUnboundImplied(Tail(unbound_then), unbound_if)

\* variant: the two iterators are swapped in the lookup
create_swapped(if_all, then) ==
    LET unbound_if == FilterUnbound(Flatten(if_all))
        unbound_then == FilterUnbound(Flatten(then))
        bad == FirstUnboundImplied(unbound_if, unbound_then)
    IN  IF bad # None
        THEN [ok |-> FALSE, err |-> [kind |-> "UnboundImplied", val |-> bad[1]]]
        ELSE [ok |-> TRUE, rule |-> [if_all |-> if_all, then |-> then]]

create(if_all, then) ==
    LET unbound_if == FilterUnbound(Flatten(if_all))
        unbound_then == FilterUnbound(Flatten(then))
        bad == FirstUnboundImplied(unbound_then, unbound_if)
    IN  IF bad # None
        THEN [ok |-> FALSE, err |-> [kind |-> "UnboundImplied", val |-> bad[1]]]
        ELSE [ok |-> TRUE, rule |-> [if_all |-> if_all, then |-> then]]

\* ---------------------------------------------------------- Rule::lower
\* crate::common::inc: post-increment of the counter
inc(n) == [ret |-> n, next |-> n + 1]

\* map.entry(key).or_insert_with(|| inc(&mut next_local)), for each key
RECURSIVE AssignLocals(_, _, _)
AssignLocals(keys, map, next_local) ==
    IF keys = <<>> THEN [map |-> map, next_local |-> next_local]
    ELSE IF Head(keys) \in DOMAIN map
         THEN AssignLocals(Tail(keys), map, next_local)
         ELSE LET i == inc(next_local)
              IN  AssignLocals(Tail(keys), map @@ (Head(keys) :> i.ret), i.next)

EmptyMap == [k \in {} |-> 0]

\* variant: the counter starts at 1
unbound_map_from_one(rule) ==
    AssignLocals(FilterUnbound(Flatten(rule.if_all)), EmptyMap, 1)

unbound_map(rule) ==
    AssignLocals(FilterUnbound(Flatten(rule.if_all)), EmptyMap, 0)

\* variant: the literal table counts from 0 with a counter of its own
bound_map_own_counter(rule, next_local) ==
    AssignLocals(FilterBound(iter_entities(rule)), EmptyMap, 0)

bound_map(rule, next_local) ==
    AssignLocals(FilterBound(iter_entities(rule)), EmptyMap, next_local)

Values(map) == {map[k] : k \in DOMAIN map}

\* the debug_assert!s of lower
DebugAssertions(rule, um, bm, next_local) ==
    /\ \A bl \in Values(bm) : \A ul \in Values(um) : bl > ul
    /\ 0..(next_local - 1) = Values(um) \cup Values(bm)
    /\ next_local = Cardinality(DOMAIN um) + Cardinality(DOMAIN bm)
    /\ \A u \in Range(FilterUnbound(Flatten(rule.if_all))) : u \in DOMAIN um

\* indexing a BTreeMap with a missing key panics
HasLocalName(entity, um, bm) ==
    IF entity.tag = "Any" THEN entity.val \in DOMAIN um ELSE entity.val \in DOMAIN bm

\* variant: one lookup by spelling, whatever the variant of the entity
local_name_by_spelling(entity, um, bm) ==
    IF entity.val \in DOMAIN um THEN um[entity.val] ELSE bm[entity.val]

local_name(entity, um, bm) ==
    IF entity.tag = "Any" THEN um[entity.val] ELSE bm[entity.val]

Triple(s, p, o) == [subject |-> s, property |-> p, object |-> o]

to_requirements(hu, um, bm) ==
    [i \in DOMAIN hu |->
        Triple(local_name(hu[i][1], um, bm),
               local_name(hu[i][2], um, bm),
               local_name(hu[i][3], um, bm))]

\* a set of ordered values as an ascending sequence
RECURSIVE SortedSeq(_)
SortedSeq(S) ==
    IF S = {} THEN <<>>
    ELSE LET m == CHOOSE x \in S : \A y \in S : x <= y
         IN  <<m>> \o SortedSeq(S \ {m})

\* variant: the literal table is iterated from its greatest key down
BTreeKeys_desc(map) ==
    LET s == SortedSeq(DOMAIN map) IN [i \in DOMAIN s |-> s[Len(s) + 1 - i]]

\* bound_map.iter(): the keys of the literal table in iteration order
BTreeKeys(map) == SortedSeq(DOMAIN map)

\* Translator: a sorted table of the known values; a value's global name is
\* its index in the table
Translators == {SortedSeq(S) : S \in SUBSET Bound}

forward(tran, b) ==
    IF \E i \in DOMAIN tran : tran[i] = b
    THEN Some((CHOOSE i \in DOMAIN tran : tran[i] = b) - 1)
    ELSE None

back(tran, g) == IF g + 1 \in DOMAIN tran THEN Some(tran[g + 1]) ELSE None

\* variant: a literal without translation is left out of inst
RECURSIVE CollectInst_skip(_, _, _, _)
CollectInst_skip(keys, bm, tran, acc) ==
    IF keys = <<>> THEN [ok |-> TRUE, inst |-> acc]
    ELSE LET human_name == Head(keys)
             global_name == forward(tran, human_name)
         IN  IF global_name = None
             THEN CollectInst_skip(Tail(keys), bm, tran, acc)
             ELSE CollectInst_skip(Tail(keys), bm, tran,
                                   acc @@ (bm[human_name] :> global_name[1]))

\* variant: the pair is built as (global name, local name)
RECURSIVE CollectInst_swapped(_, _, _, _)
CollectInst_swapped(keys, bm, tran, acc) ==
    IF keys = <<>> THEN [ok |-> TRUE, inst |-> acc]
    ELSE LET human_name == Head(keys)
             global_name == forward(tran, human_name)
         IN  IF global_name = None
             THEN [ok |-> FALSE, lit |-> human_name]
             ELSE CollectInst_swapped(Tail(keys), bm, tran,
                                      acc @@ (global_name[1] :> bm[human_name]))

\* bound_map.iter().map(..forward..ok_or(NoTranslation)?..).collect::<Result<_, _>>()?
RECURSIVE CollectInst(_, _, _, _)
CollectInst(keys, bm, tran, acc) ==
    IF keys = <<>> THEN [ok |-> TRUE, inst |-> acc]
    ELSE LET human_name == Head(keys)
             global_name == forward(tran, human_name)
         IN  IF global_name = None
             THEN [ok |-> FALSE, lit |-> human_name]
             ELSE CollectInst(Tail(keys), bm, tran,
                              acc @@ (bm[human_name] :> global_name[1]))

lower(rule, tran, debug) ==
    LET u == unbound_map(rule)
        b == bound_map(rule, u.next_local)
        um == u.map
        bm == b.map
        locals == [unbound_map |-> um, bound_map |-> bm, next_local |-> b.next_local]
    IN  IF debug /\ ~DebugAssertions(rule, um, bm, b.next_local)
        THEN [kind |-> "Panic", locals |-> locals]
        ELSE IF \E e \in Range(iter_entities(rule)) : ~HasLocalName(e, um, bm)
        THEN [kind |-> "Panic", locals |-> locals]
        ELSE LET r == CollectInst(BTreeKeys(bm), bm, tran, EmptyMap)
             IN  IF r.ok
                 THEN [kind |-> "Ok", locals |-> locals,
                       low |-> [if_all |-> to_requirements(rule.if_all, um, bm),
                                then |-> to_requirements(rule.then, um, bm),
                                inst |-> r.inst]]
                 ELSE [kind |-> "Err", locals |-> locals,
                       err |-> [kind |-> "NoTranslation", val |-> r.lit]]

\* -------------------------------------------- Rule::cononical_unbound
RECURSIVE ListUnique(_, _)
ListUnique(us, listed) ==
    IF us = <<>> THEN <<>>
    ELSE IF Head(us) \in listed THEN ListUnique(Tail(us), listed)
    ELSE <<Head(us)>> \o ListUnique(Tail(us), listed \cup {Head(us)})

\* variant: the items are yielded in the order of the `listed` set
cononical_unbound_sorted(rule) ==
    SortedSeq(Range(FilterUnbound(Flatten(rule.if_all))))

cononical_unbound(rule) == ListUnique(FilterUnbound(Flatten(rule.if_all)), {})

\* ----------------------------------------------------------------- state
VARIABLES
    arg_if_all,   \* the if_all argument given to Rule::create
    arg_then,     \* the then argument given to Rule::create
    created,      \* the Result of Rule::create, None before the call
    tran,         \* the Translator given to the last call of lower
    lowered,      \* the outcome of the last call of lower, None before
    canon         \* the items cononical_unbound yielded, None before

vars == <<arg_if_all, arg_then, created, tran, lowered, canon>>

Init ==
    /\ arg_if_all = <<>>
    /\ arg_then = <<>>
    /\ created = None
    /\ tran = <<>>
    /\ lowered = None
    /\ canon = None

Create ==
    /\ created = None
    /\ \E args \in RuleArgs :
        /\ arg_if_all' = args[1]
        /\ arg_then' = args[2]
        /\ created' = Some(create(args[1], args[2]))
    /\ UNCHANGED <<tran, lowered, canon>>

HaveRule == created # None /\ created[1].ok

Lower ==
    /\ HaveRule
    /\ \E t \in Translators, debug \in BOOLEAN :
        /\ tran' = t
        /\ lowered' = Some(lower(created[1].rule, t, debug))
    /\ UNCHANGED <<arg_if_all, arg_then, created, canon>>

CononicalUnbound ==
    /\ HaveRule
    /\ canon' = Some(cononical_unbound(created[1].rule))
    /\ UNCHANGED <<arg_if_all, arg_then, created, tran, lowered>>

Next == Create \/ Lower \/ CononicalUnbound

Spec == Init /\ [][Next]_vars

\* ------------------------------------------------ vocabulary of the claims
TheRule == created[1].rule
Low == lowered[1].low
Locals == lowered[1].locals

\* the slots of the rule: <<part, pattern index, position>>
SlotsOf(part, ps) == {<<part, i, j>> : i \in DOMAIN ps, j \in 1..3}
IfSlots == SlotsOf("if_all", TheRule.if_all)
ThenSlots == SlotsOf("then", TheRule.then)
AllSlots == IfSlots \cup ThenSlots

\* the entity the rule holds in a slot
EntAt(sl) == IF sl[1] = "if_all" THEN TheRule.if_all[sl[2]][sl[3]]
             ELSE TheRule.then[sl[2]][sl[3]]

Position(t, j) == CASE j = 1 -> t.subject [] j = 2 -> t.property [] j = 3 -> t.object

\* the local identifier the compiled rule holds in a slot
IdAt(sl) == IF sl[1] = "if_all" THEN Position(Low.if_all[sl[2]], sl[3])
            ELSE Position(Low.then[sl[2]], sl[3])

TaggedIn(ps, tag) ==
    {ps[x[1]][x[2]].val : x \in {y \in (DOMAIN ps) \X (1..3) : ps[y[1]][y[2]].tag = tag}}
VarsIn(ps) == TaggedIn(ps, "Any")
LitsIn(ps) == TaggedIn(ps, "Exactly")

\* K distinct premise variables, M distinct literals of the whole rule
K == Cardinality(VarsIn(TheRule.if_all))
RuleLits == LitsIn(TheRule.if_all) \cup LitsIn(TheRule.then)
M == Cardinality(RuleLits)

Resolves(b) == forward(tran, b) # None
Unresolved == {b \in RuleLits : ~Resolves(b)}

\* the scan of the whole rule, premises then conclusions, slot by slot
Scan == [n \in 1..(3 * (Len(TheRule.if_all) + Len(TheRule.then))) |->
            LET i == ((n - 1) \div 3) + 1
                j == ((n - 1) % 3) + 1
            IN  IF i <= Len(TheRule.if_all) THEN TheRule.if_all[i][j]
                ELSE TheRule.then[i - Len(TheRule.if_all)][j]]

FirstAt(e) == CHOOSE n \in DOMAIN Scan : Scan[n] = e /\ \A m \in 1..(n - 1) : Scan[m] # e

\* how many distinct literals are first met before literal b in the scan
LitRank(b) == Cardinality({c \in RuleLits : FirstAt(exa(c)) < FirstAt(exa(b))})
VarRank(v) == Cardinality({w \in VarsIn(TheRule.if_all) : FirstAt(any(w)) < FirstAt(any(v))})

Called == created # None
Lowered == lowered # None
LoweredOk == Lowered /\ lowered[1].kind = "Ok"
LoweredErr == Lowered /\ lowered[1].kind = "Err"

\* ------------------------------------------------------------------ C1
\* C1: create returns Ok, holding exactly the two sequences it was given,
\* exactly when every variable of `then` occurs in `if_all`; otherwise it
\* returns UnboundImplied(v) with v a variable of `then` that is not in
\* `if_all`, and no rule.
C1_CreateSafety ==
    Called =>
        /\ created[1].ok <=> VarsIn(arg_then) \subseteq VarsIn(arg_if_all)
        /\ created[1].ok =>
              created[1].rule = [if_all |-> arg_if_all, then |-> arg_then]
        /\ ~created[1].ok =>
              /\ created[1].err.kind = "UnboundImplied"
              /\ created[1].err.val \in VarsIn(arg_then) \ VarsIn(arg_if_all)
              /\ "rule" \notin DOMAIN created[1]

C1_Witness ==
    /\ Called
    /\ ~created[1].ok
    /\ VarsIn(arg_if_all) # {}
    /\ VarsIn(arg_then) \cap VarsIn(arg_if_all) # {}

\* ------------------------------------------------------------------ C2
\* C2: lower returns Ok exactly when the dictionary's forward lookup is
\* defined for every literal of the rule; otherwise it returns a
\* NoTranslation error and no compiled rule.
C2_ResolutionCompleteness ==
    Lowered =>
        /\ lowered[1].kind = "Ok" <=> \A b \in RuleLits : Resolves(b)
        /\ Unresolved # {} =>
              /\ lowered[1].kind = "Err"
              /\ lowered[1].err.kind = "NoTranslation"
              /\ "low" \notin DOMAIN lowered[1]

C2_Witness ==
    /\ LoweredErr
    /\ Unresolved # {}
    /\ RuleLits \ Unresolved # {}

\* ------------------------------------------------------------------ C3
\* C3 as stated: the literal of the NoTranslation error is the unresolved
\* literal met first when scanning the premises and then the conclusions.
C3_FirstUnresolvedInScan ==
    LoweredErr =>
        \A b \in Unresolved : FirstAt(exa(lowered[1].err.val)) <= FirstAt(exa(b))

\* C3 amended: the literal of the NoTranslation error is an unresolved
\* literal of the rule, and it is the least one in the order of the literal
\* values (the order in which the literal table is iterated).
C3_LeastUnresolved ==
    LoweredErr =>
        /\ lowered[1].err.val \in Unresolved
        /\ \A b \in Unresolved : lowered[1].err.val <= b

C3_Witness ==
    /\ LoweredErr
    /\ Cardinality(Unresolved) >= 2
    /\ \E b \in Unresolved : FirstAt(exa(b)) < FirstAt(exa(lowered[1].err.val))

\* ------------------------------------------------------------------ C4
\* C4: in a successfully lowered rule the identifiers assigned, and those
\* occurring in the compiled patterns, are exactly 0..K+M-1: the variables
\* hold exactly 0..K-1 and the literals exactly K..K+M-1.
C4_DensePartition ==
    LoweredOk =>
        /\ {IdAt(sl) : sl \in AllSlots} = 0..(K + M - 1)
        /\ {IdAt(sl) : sl \in {x \in AllSlots : EntAt(x).tag = "Any"}} = 0..(K - 1)
        /\ {IdAt(sl) : sl \in {x \in AllSlots : EntAt(x).tag = "Exactly"}} = K..(K + M - 1)
        /\ Values(Locals.unbound_map) = 0..(K - 1)
        /\ Values(Locals.bound_map) = K..(K + M - 1)
        /\ Locals.next_local = K + M

C4_Witness ==
    /\ LoweredOk
    /\ K = 2
    /\ M = 2
    /\ TheRule.then # <<>>

\* ------------------------------------------------------------------ C5
\* C5: the domain of inst is exactly the literal identifiers K..K+M-1, and
\* each literal's identifier maps to the global code the forward lookup
\* gives for that literal, which translates back to the literal.
C5_InstMap ==
    LoweredOk =>
        /\ DOMAIN Low.inst = K..(K + M - 1)
        /\ \A sl \in AllSlots :
              EntAt(sl).tag = "Any" => IdAt(sl) \notin DOMAIN Low.inst
        /\ \A sl \in AllSlots :
              EntAt(sl).tag = "Exactly" =>
                  /\ IdAt(sl) \in DOMAIN Low.inst
                  /\ Some(Low.inst[IdAt(sl)]) = forward(tran, EntAt(sl).val)
                  /\ back(tran, Low.inst[IdAt(sl)]) = Some(EntAt(sl).val)

C5_Witness ==
    /\ LoweredOk
    /\ K >= 1
    /\ M = 2
    /\ \E sl \in AllSlots : EntAt(sl).tag = "Exactly" /\ Low.inst[IdAt(sl)] # IdAt(sl)

\* ------------------------------------------------------------------ C6
\* C6: lower keeps the number of premise and conclusion patterns, and two
\* slots of the rule get the same identifier exactly when they hold the
\* same entity (same variant, same value).
C6_SameIdIffSameEntity ==
    LoweredOk =>
        /\ Len(Low.if_all) = Len(TheRule.if_all)
        /\ Len(Low.then) = Len(TheRule.then)
        /\ \A a \in AllSlots, b \in AllSlots :
              IdAt(a) = IdAt(b) <=> EntAt(a) = EntAt(b)

C6_Witness ==
    /\ LoweredOk
    /\ TheRule.then # <<>>
    /\ \E a \in AllSlots, b \in AllSlots :
          /\ EntAt(a).tag = "Any"
          /\ EntAt(b).tag = "Exactly"
          /\ EntAt(a).val = EntAt(b).val
    /\ \E a \in IfSlots, b \in ThenSlots : EntAt(a) = EntAt(b)

\* ------------------------------------------------------------------ C7
\* C7: cononical_unbound yields each variable of the premises once, in
\* first-appearance order, and its i-th item (from 0) is the variable that
\* lower gives the local identifier i.
C7_CanonicalOrderParity ==
    (canon # None /\ Lowered) =>
        /\ Len(canon[1]) = K
        /\ Range(canon[1]) = VarsIn(TheRule.if_all)
        /\ \A i \in 1..K : VarRank(canon[1][i]) = i - 1
        /\ \A i \in 1..K : Locals.unbound_map[canon[1][i]] = i - 1
        /\ LoweredOk =>
              \A sl \in AllSlots :
                  EntAt(sl).tag = "Any" => canon[1][IdAt(sl) + 1] = EntAt(sl).val

C7_Witness ==
    /\ canon # None
    /\ LoweredOk
    /\ canon[1] = <<2, 1>>
    /\ Len(FilterUnbound(Flatten(TheRule.if_all))) = 3

\* ------------------------------------------------------------------ C8
SmallestAbsent(S) == CHOOSE n \in 0..Cardinality(S) : n \notin S /\ \A m \in 0..(n - 1) : m \in S
SmallestIn(S) == CHOOSE n \in S : \A m \in S : n <= m

\* C8 as stated: K is the smallest identifier absent from the domain of inst.
C8_BoundaryIsSmallestAbsent ==
    LoweredOk => K = SmallestAbsent(DOMAIN Low.inst)

\* C8 amended: no identifier below K is in the domain of inst, and when the
\* rule has a literal K is the smallest identifier in that domain.
C8_BoundaryIsSmallestPresent ==
    LoweredOk =>
        /\ \A n \in 0..(K - 1) : n \notin DOMAIN Low.inst
        /\ M > 0 => K = SmallestIn(DOMAIN Low.inst)
        /\ M = 0 => DOMAIN Low.inst = {}

C8_Witness ==
    /\ LoweredOk
    /\ K = 2
    /\ M >= 1
    /\ SmallestAbsent(DOMAIN Low.inst) = 0

\* ------------------------------------------------------------------ C9
\* C9: the j-th distinct literal met when scanning the premises and then
\* the conclusions gets the identifier K+j, whatever the literals' order
\* and whatever the dictionary holds, and also when it occurs only in a
\* conclusion.
C9_LiteralsByFirstAppearance ==
    Lowered =>
        /\ DOMAIN Locals.bound_map = RuleLits
        /\ \A b \in RuleLits : Locals.bound_map[b] = K + LitRank(b)
        /\ LoweredOk =>
              \A sl \in AllSlots :
                  EntAt(sl).tag = "Exactly" => IdAt(sl) = K + LitRank(EntAt(sl).val)

C9_Witness ==
    /\ LoweredOk
    /\ K >= 1
    /\ LitsIn(TheRule.if_all) = {2}
    /\ LitsIn(TheRule.then) = {1, 2}
    /\ Locals.bound_map[2] < Locals.bound_map[1]

\* ----------------------------------------------------------------- C10
\* C10: for a rule returned by create, every variable of `then` is a key of
\* the variable table, every slot has an identifier, and lower ends in Ok
\* or in Err(NoTranslation), never in a panic.
C10_LowerNeverPanics ==
    Lowered =>
        /\ lowered[1].kind \in {"Ok", "Err"}
        /\ VarsIn(TheRule.then) \subseteq DOMAIN Locals.unbound_map
        /\ \A sl \in AllSlots :
              HasLocalName(EntAt(sl), Locals.unbound_map, Locals.bound_map)

C10_Witness ==
    /\ Lowered
    /\ lowered[1].kind \in {"Ok", "Err"}
    /\ VarsIn(TheRule.then) # {}

C10_WitnessEmpty ==
    /\ LoweredOk
    /\ TheRule.if_all = <<>>
    /\ TheRule.then = <<>>

====
